---------------------------- MODULE Spec2Model ----------------------------
(***************************************************************************)
(* A model of the Bebop UDP client (client/client.go): the wire-frame      *)
(* generator with its per-channel sequence counters, the inbound dispatch  *)
(* of packetReceiver (ack, video ack, pong) and the ARStream video         *)
(* reassembler createARStreamACK.                                          *)
(*                                                                         *)
(* Byte buffers are sequences of 0..255; Go's buf[i] is buf[i+1] here.     *)
(* A uint64 bitfield is the set of its set bit positions (0..63).          *)
(***************************************************************************)
EXTENDS Integers, Sequences, FiniteSets, TLC

(***************************************************************************)
(* Protocol constants (constants.go of the package, ARSDK values).         *)
(***************************************************************************)
ARNETWORKAL_FRAME_TYPE_ACK == 1
ARNETWORKAL_FRAME_TYPE_DATA == 2
ARNETWORKAL_FRAME_TYPE_DATA_LOW_LATENCY == 3
ARNETWORKAL_FRAME_TYPE_DATA_WITH_ACK == 4
ARNETWORKAL_MANAGER_DEFAULT_ID_MAX == 256
ARNETWORK_MANAGER_INTERNAL_BUFFER_ID_PING == 0
ARNETWORK_MANAGER_INTERNAL_BUFFER_ID_PONG == 1
BD_NET_CD_NONACK_ID == 10
BD_NET_CD_VIDEO_ACK_ID == 13
BD_NET_DC_VIDEO_DATA_ID == 125
ARCOMMANDS_ID_ARDRONE3_PILOTINGSTATE_CMD_POSITIONCHANGED == 4
ARCOMMANDS_ID_PROJECT_ARDRONE3 == 1
ARCOMMANDS_ID_ARDRONE3_CLASS_PILOTING == 0
ARCOMMANDS_ID_ARDRONE3_PILOTING_CMD_PCMD == 2
ARCOMMANDS_ID_ARDRONE3_PILOTING_CMD_TAKEOFF == 1

\* byte: the values of Go's byte / uint8
ByteMod == 256
\* uint16: the width of the ARStream frame number
FrameNumberMod == 65536
\* hlen: size of the ARNETWORKAL_Frame_t header
hlen == 7
\* cap(data): the reader allocates 40960 bytes per datagram
ReadBufferSize == 40960

(***************************************************************************)
(* Bounds of the model.                                                    *)
(***************************************************************************)
\* time.Sleep(500 * time.Millisecond) before the first command, counted in
\* sleeps of 25 ms
GraceTicks == 20

\* datagrams the reader handles in one run
MaxDatagrams == 3

(***************************************************************************)
(* Byte helpers (encoding/binary, little endian).                          *)
(***************************************************************************)
\* binary.Write(.., LittleEndian, uint16(n))
PutUint16(n) == << n % 256, (n \div 256) % 256 >>

\* binary.Write(.., LittleEndian, uint32(n)), n < 2^31
PutUint32(n) ==
  << n % 256, (n \div 256) % 256, (n \div 65536) % 256, (n \div 16777216) % 256 >>

\* One byte of a uint64 bitfield held as the set of its set bits.
BitsByte(bits, j) ==
  LET bit(b) == IF (8 * j + b) \in bits THEN 1 ELSE 0
  IN  bit(0) + 2 * bit(1) + 4 * bit(2) + 8 * bit(3)
      + 16 * bit(4) + 32 * bit(5) + 64 * bit(6) + 128 * bit(7)

\* binary.Write(.., LittleEndian, uint64(bits))
PutUint64(bits) == [j \in 1..8 |-> BitsByte(bits, j - 1)]

\* The set bits of the uint64 stored little endian in the 8 bytes b.
Uint64Bits(b) ==
  { n \in 0..63 : (b[(n \div 8) + 1] \div (2 ^ (n % 8))) % 2 = 1 }

\* Go's s[lo:hi] on a slice whose backing array is zero beyond len(s).
GoSlice(s, lo, hi) ==
  [i \in 1..(hi - lo) |-> IF lo + i <= Len(s) THEN s[lo + i] ELSE 0]

(***************************************************************************)
(* The piloting command.                                                   *)
(***************************************************************************)
\* A bound that lets negative values through down to -100.
validatePitchSigned(val) ==
  IF val > 100 THEN 100 ELSE IF val < -100 THEN -100 ELSE val

\* validatePitch(val)
validatePitch(val) ==
  IF val > 100 THEN 100 ELSE IF val < 0 THEN 0 ELSE val

(***************************************************************************)
(* The frame codec.                                                        *)
(***************************************************************************)
\* The uint32 size field of a header; a field with a non-zero upper half is
\* at least 65536 and only compared with the buffer's capacity.
SizeField(b) ==
  IF b[3] # 0 \/ b[4] # 0 THEN 65536 ELSE b[1] + 256 * b[2]

\* NewNetworkFrame(buf), buf = data[0:i] of a buffer of ReadBufferSize bytes.
\* ok = FALSE is a runtime panic: buf[0..2] index out of range, or the
\* bounds of buf[7:frame.Size] out of range.
NewNetworkFrame(buf) ==
  LET size == SizeField(GoSlice(buf, 3, 7))
      bad  == [ok |-> FALSE, Type |-> 0, ID |-> 0, Seq |-> 0, Size |-> 0,
               Data |-> << >>]
  IN  IF Len(buf) < 3 THEN bad
      ELSE IF size < 7 \/ size > ReadBufferSize THEN bad
      ELSE [ok |-> TRUE, Type |-> buf[1], ID |-> buf[2], Seq |-> buf[3],
            Size |-> size, Data |-> GoSlice(buf, 7, size)]

\* NewARStreamFrame(buf), buf = frame.Data. ok = FALSE is the panic of
\* buf[2], buf[3], buf[4] or buf[5:] on a buffer shorter than 5 bytes.
NewARStreamFrame(buf) ==
  IF Len(buf) < 5
  THEN [ok |-> FALSE, FrameNumber |-> 0, FrameFlags |-> 0,
        FragmentNumber |-> 0, FragmentsPerFrame |-> 0, Frame |-> << >>]
  ELSE [ok |-> TRUE, FrameNumber |-> buf[1] + 256 * buf[2],
        FrameFlags |-> buf[3], FragmentNumber |-> buf[4],
        FragmentsPerFrame |-> buf[5], Frame |-> SubSeq(buf, 6, Len(buf))]

\* A counter that starts over at 1 instead of 0 after 255.
SeqIncrementSkipsZero(s, id) ==
  LET cur == IF id \in DOMAIN s THEN s[id] ELSE 0
  IN  [k \in (DOMAIN s) \cup {id} |->
         IF k = id THEN (IF cur = ByteMod - 1 THEN 1 ELSE cur + 1) ELSE s[k]]

\* The counter map after the closure's  seq[id] = 0 (if absent); seq[id]++
\* on map[byte]byte: the byte wraps 255 -> 0, "seq[id] > 255" is never true.
SeqIncrement(s, id) ==
  LET cur == IF id \in DOMAIN s THEN s[id] ELSE 0
  IN  [k \in (DOMAIN s) \cup {id} |->
         IF k = id THEN (cur + 1) % ByteMod ELSE s[k]]

\* A header whose size field counts the payload alone.
FrameBytesPayloadSize(cmd, frameType, id, sq) ==
  << frameType, id, sq >> \o PutUint32(Len(cmd)) \o cmd

\* The bytes the closure writes: type, id, seq[id], uint32(len(cmd)+hlen), cmd.
FrameBytes(cmd, frameType, id, sq) ==
  << frameType, id, sq >> \o PutUint32(Len(cmd) + hlen) \o cmd

\* One sequential call of the closure returned by networkFrameGenerator():
\* the counter map after it and the buffer it returns.
networkFrameGenerator(s, cmd, frameType, id) ==
  LET s2 == SeqIncrement(s, id)
  IN  [seq |-> s2, ret |-> FrameBytes(cmd, frameType, id, s2[id])]

\* binary.Write(.., LittleEndian, int8(v)) and uint8(v): the low byte, a
\* negative value in two's complement.
PutInt8(v) == v % ByteMod

\* Lines 521-576 of generatePcmd: project, class, command id, then flag,
\* roll, pitch, yaw, gaz and uint32(psi) of the command c.
PcmdBytes(c) ==
  << ARCOMMANDS_ID_PROJECT_ARDRONE3, ARCOMMANDS_ID_ARDRONE3_CLASS_PILOTING >>
    \o PutUint16(ARCOMMANDS_ID_ARDRONE3_PILOTING_CMD_PCMD)
    \o << PutInt8(c.Flag), PutInt8(c.Roll), PutInt8(c.Pitch), PutInt8(c.Yaw),
          PutInt8(c.Gaz) >>
    \o PutUint32(c.Psi)

\* generatePcmd() with b.Pcmd = c and the sequence counters s, run alone.
generatePcmd(s, c) ==
  networkFrameGenerator(s, PcmdBytes(c), ARNETWORKAL_FRAME_TYPE_DATA,
                        BD_NET_CD_NONACK_ID)

\* The fields of an outbound frame as the peer reads them.
FrameType(f) == f[1]
FrameID(f) == f[2]
FrameSeq(f) == f[3]
FramePayload(f) == SubSeq(f, hlen + 1, Len(f))

\* createAck(frame): the arguments it passes to the frame generator.
AckID(frame) == (frame.ID + (ARNETWORKAL_MANAGER_DEFAULT_ID_MAX \div 2)) % ByteMod

createAck(s, frame) ==
  networkFrameGenerator(s, << frame.Seq % ByteMod >>,
                        ARNETWORKAL_FRAME_TYPE_ACK, AckID(frame))

\* createPong(frame)
createPong(s, frame) ==
  networkFrameGenerator(s, frame.Data, ARNETWORKAL_FRAME_TYPE_DATA,
                        ARNETWORK_MANAGER_INTERNAL_BUFFER_ID_PONG)

(***************************************************************************)
(* The video reassembler, createARStreamACK.                               *)
(*                                                                         *)
(* tmpFrame.fragments is [made, at]: made = FALSE is the nil map of        *)
(* tmpFrame{}, at is the map itself.                                       *)
(***************************************************************************)
\* len(b.tmpFrame.fragments[i]): 0 for an absent key
FragmentLen(m, i) == IF i \in DOMAIN m THEN Len(m[i]) ELSE 0

\* The first i in 0..len(fragments)-1 with len(fragments[i]) == 0, the index
\* at which the loop breaks; len(fragments) if there is none.
FirstMissing(m) ==
  LET n   == Cardinality(DOMAIN m)
      bad == { i \in 0..(n - 1) : FragmentLen(m, i) = 0 }
  IN  IF bad = {} THEN n ELSE CHOOSE i \in bad : \A j \in bad : i <= j

\* frame after append(frame, fragments[i]...) for i = 0 .. upto-1
RECURSIVE AppendFragments(_, _, _)
AppendFragments(frame, m, upto) ==
  IF upto = 0 THEN frame
  ELSE AppendFragments(frame, m, upto - 1) \o m[upto - 1]

\* The frame is sent on b.video whether or not a consumer is receiving, as
\* on a channel with room or with a send that waits.
FinalizeSendsAnyway(t, fn, receiving) ==
  IF Cardinality(DOMAIN t.fragments.at) = 0
  THEN [waitForIframe |-> t.waitForIframe, sent |-> << >>]
  ELSE
    LET wait1 == IF fn # t.arstreamACK.FrameNumber + 1
                 THEN TRUE ELSE t.waitForIframe
        iframe == t.frameFlags = 1
        n     == Cardinality(DOMAIN t.fragments.at)
        stop  == FirstMissing(t.fragments.at)
        frame == AppendFragments(t.frame, t.fragments.at, stop)
    IN  [waitForIframe |-> IF iframe THEN FALSE ELSE wait1,
         sent |-> IF (iframe \/ ~wait1) /\ ~(stop < n)
                  THEN << frame >> ELSE << >>]

\* Lines 893-928: what becomes of the frame in progress when a fragment of
\* frame number fn arrives; receiving = a consumer is blocked on b.video.
\* sent is what the select sends on b.video.
Finalize(t, fn, receiving) ==
  IF Cardinality(DOMAIN t.fragments.at) = 0
  THEN [waitForIframe |-> t.waitForIframe, sent |-> << >>]
  ELSE
    LET wait1 == IF fn # t.arstreamACK.FrameNumber + 1
                 THEN TRUE ELSE t.waitForIframe
        iframe == t.frameFlags = 1
        wait2 == IF iframe THEN FALSE ELSE wait1
        emit  == iframe \/ ~wait1
        n     == Cardinality(DOMAIN t.fragments.at)
        stop  == FirstMissing(t.fragments.at)
        skip  == stop < n
        frame == AppendFragments(t.frame, t.fragments.at, stop)
    IN  [waitForIframe |-> wait2,
         sent |-> IF emit /\ ~skip /\ receiving THEN << frame >> ELSE << >>]

\* Lines 892-934: the reassembly state once the frame number is settled.
StartFrame(t, frame, receiving) ==
  IF frame.FrameNumber # t.arstreamACK.FrameNumber
  THEN [t EXCEPT !.waitForIframe =
                     Finalize(t, frame.FrameNumber, receiving).waitForIframe,
                 !.fragments = [made |-> TRUE, at |-> << >>],
                 !.frame = << >>,
                 !.arstreamACK.FrameNumber = frame.FrameNumber,
                 !.frameFlags = frame.FrameFlags]
  ELSE t

\* Lines 935-941: store the fragment and flip its bit. A shift by 64 or
\* more gives 0, so an index above 127 sets no bit.
StoreFragment(t, frame) ==
  LET idx == frame.FragmentNumber
      m   == t.fragments.at
  IN  [t EXCEPT
         !.fragments.at = [k \in (DOMAIN m) \cup {idx} |->
                             IF k = idx THEN frame.Frame ELSE m[k]],
         !.arstreamACK.LowPacketsAck =
             IF idx < 64 THEN @ \cup {idx} ELSE @,
         !.arstreamACK.HighPacketsAck =
             IF idx >= 64 /\ idx - 64 < 64 THEN @ \cup {idx - 64} ELSE @]

\* Lines 943-964: the payload of the ack packet.
AckPacket(ack) ==
  PutUint16(ack.FrameNumber % FrameNumberMod)
    \o PutUint64(ack.HighPacketsAck) \o PutUint64(ack.LowPacketsAck)

\* createARStreamACK(frame) up to its call of the frame generator:
\* ok = FALSE is the panic "assignment to entry in nil map" of line 935.
createARStreamACK(t, frame, receiving) ==
  LET sent == IF frame.FrameNumber # t.arstreamACK.FrameNumber
              THEN Finalize(t, frame.FrameNumber, receiving).sent
              ELSE << >>
      t1   == StartFrame(t, frame, receiving)
  IN  IF ~t1.fragments.made
      THEN [ok |-> FALSE, tmpFrame |-> t1, sent |-> sent, cmd |-> << >>]
      ELSE LET t2 == StoreFragment(t1, frame)
           IN  [ok |-> TRUE, tmpFrame |-> t2, sent |-> sent,
                cmd |-> AckPacket(t2.arstreamACK)]

(***************************************************************************)
(* The inbound dispatch, packetReceiver.                                   *)
(***************************************************************************)
\* Lines 607-653: the position-changed test block indexes frame.Data[1..3]
\* and slices frame.Data[4:] of any non-empty payload; on a payload of one
\* to three bytes that is an index out of range. (The slices of
\* cmdRemaining stay within the capacity of the read buffer.)
TestBlockPanics(frame) ==
  /\ frame.Type = ARCOMMANDS_ID_ARDRONE3_PILOTINGSTATE_CMD_POSITIONCHANGED
  /\ Len(frame.Data) # 0
  /\ Len(frame.Data) < 4

\* Lines 659-666: the ack of a frame that asks for one.
DispatchAck(st, frame) ==
  IF frame.Type = ARNETWORKAL_FRAME_TYPE_DATA_WITH_ACK
  THEN LET g == createAck(st.seq, frame)
       IN  [st EXCEPT !.seq = g.seq, !.writes = Append(@, g.ret)]
  ELSE st

\* Lines 668-678: a video fragment goes to the reassembler and is acked.
DispatchVideo(st, frame, receiving) ==
  IF /\ frame.Type = ARNETWORKAL_FRAME_TYPE_DATA_LOW_LATENCY
     /\ frame.ID = BD_NET_DC_VIDEO_DATA_ID
  THEN LET ar == NewARStreamFrame(frame.Data)
           r  == createARStreamACK(st.tmpFrame, ar, receiving)
           g  == networkFrameGenerator(st.seq, r.cmd,
                     ARNETWORKAL_FRAME_TYPE_DATA, BD_NET_CD_VIDEO_ACK_ID)
       IN  IF ~ar.ok THEN [st EXCEPT !.ok = FALSE]
           ELSE IF ~r.ok
           THEN [st EXCEPT !.ok = FALSE, !.tmpFrame = r.tmpFrame,
                           !.sent = r.sent]
           ELSE [st EXCEPT !.tmpFrame = r.tmpFrame, !.sent = r.sent,
                           !.seq = g.seq, !.writes = Append(@, g.ret)]
  ELSE st

\* A pong for every frame, whatever its channel.
DispatchPongAlways(st, frame) ==
  LET g == createPong(st.seq, frame)
  IN  [st EXCEPT !.seq = g.seq, !.writes = Append(@, g.ret)]

\* Lines 683-689: the pong of a ping.
DispatchPong(st, frame) ==
  IF frame.ID = ARNETWORK_MANAGER_INTERNAL_BUFFER_ID_PING
  THEN LET g == createPong(st.seq, frame)
       IN  [st EXCEPT !.seq = g.seq, !.writes = Append(@, g.ret)]
  ELSE st

\* packetReceiver(buf) run by the reader alone, every b.write taken by the
\* writer: the state after it, the buffers it passed to b.write (writes) and
\* what it sent on b.video (sent). ok = FALSE: it panicked on the way.
packetReceiver(buf, t, s, receiving) ==
  LET frame == NewNetworkFrame(buf)
      st0   == [ok |-> TRUE, tmpFrame |-> t, seq |-> s,
                writes |-> << >>, sent |-> << >>]
  IN  IF ~frame.ok \/ TestBlockPanics(frame)
      THEN [st0 EXCEPT !.ok = FALSE]
      ELSE LET st1 == DispatchAck(st0, frame)
               st2 == DispatchVideo(st1, frame, receiving)
           IN  IF ~st2.ok THEN st2 ELSE DispatchPong(st2, frame)

(***************************************************************************)
(* State.                                                                  *)
(***************************************************************************)
VARIABLES
  tmpFrame,   \* b.tmpFrame, the reassembly state
  seq,        \* the frame generator's map of sequence counters
  panicked,   \* a goroutine panicked: the process is gone
  nRead,      \* datagrams the reader has handled
  data,       \* the datagram of the reader's last packetReceiver call
  writeChan,  \* the buffers that call passed to b.write, in order
  video,      \* the frames that call sent on b.video
  receiving,  \* a consumer is blocked receiving from b.Video()
  perFrame,   \* history: FragmentsPerFrame of the last video fragment
  replaced,   \* history: what the last packetReceiver call replaced, if any:
              \* were its declared fragments all there, was it a key frame
              \* or waitForIframe false, was the consumer receiving
  lastSent,   \* history: the number of the frame last sent on b.video
  pc,         \* where each goroutine stands in the frame generator
  reg,        \* the counter value each goroutine loaded for seq[id]++
  returned,   \* history: per channel, the sequence bytes handed out
  nCalls,     \* calls of the frame generator by concurrent goroutines
  codec,      \* a frame built by the generator and what decoding it gives
  Pcmd,       \* b.Pcmd, the piloting command the heartbeat sends
  lastCall,   \* history: the last setter called and its argument
  setter,     \* the setter or Stop call under way, with what it has left
  hbRead,     \* the fields generatePcmd has read so far, in order
  snapshot,   \* the fields of the last command generatePcmd serialized
  completed,  \* history: b.Pcmd as it stood after each completed call
  nSetters,   \* setter and Stop calls made next to the heartbeat
  sending,    \* per goroutine, the buffer it is blocked sending in b.write
  held,       \* the buffer the writer goroutine received and has to write
  enqueued,   \* history: the buffers in the order their b.write completed
  socket,     \* history: the buffers passed to c2dClient.Write, with the result
  grace,      \* what is left of the heartbeat's initial sleep, in ticks
  hbSleep     \* what is left of the heartbeat's sleep between two commands

vars == << tmpFrame, seq, panicked, nRead, data, writeChan, video,
           receiving, perFrame, replaced, lastSent, pc, reg, returned, nCalls,
           codec,
           Pcmd, lastCall, setter, hbRead, snapshot, completed, nSetters,
           sending, held, enqueued, socket, grace, hbSleep >>

\* The state of the reader, the consumer and the generator's callers.
coreVars == << tmpFrame, seq, panicked, nRead, data, writeChan, video,
               receiving, perFrame, replaced, lastSent, pc, reg, returned,
                  nCalls >>

\* What the reader, the consumer and the generator's callers leave alone.
extraVars == << codec, Pcmd, lastCall, setter, hbRead, snapshot, completed,
               nSetters, sending, held, enqueued, socket, grace, hbSleep >>

\* The piloting command and the last call that wrote it.
pcmdVars == << Pcmd, lastCall >>

\* The setters running next to generatePcmd.
raceVars == << setter, hbRead, snapshot, completed, nSetters >>

\* The outbound queue, the writer goroutine and the socket.
writerVars == << sending, held, enqueued, socket >>

\* What building and decoding a frame leaves alone.
exceptCodec == << coreVars, pcmdVars, raceVars, writerVars, grace, hbSleep >>

\* What the setters of b.Pcmd leave alone.
exceptPcmd == << coreVars, codec, raceVars, writerVars, grace, hbSleep >>

\* What the setters and generatePcmd, interleaved, leave alone.
exceptRace == << coreVars, codec, writerVars, grace, hbSleep >>

\* What the producers and the writer goroutine leave alone.
exceptWriter == << coreVars, codec, pcmdVars, raceVars, grace >>

\* What the reader's packetReceiver call leaves alone.
callVars == << pc, reg, returned, nCalls >>

\* What a call of the frame generator leaves alone.
readerVars == << tmpFrame, nRead, data, video, receiving, perFrame,
                replaced, lastSent >>

\* The goroutines that build frames: the application calling a command
\* (TakeOff, Land, ...), the heartbeat of Connect (generatePcmd) and the
\* reader of Connect (createAck, createPong, createARStreamACK).
Procs == {"caller", "heartbeat", "reader"}

\* The channel each of them passes to the frame generator.
ChannelOf(p) ==
  IF p = "reader" THEN BD_NET_CD_VIDEO_ACK_ID ELSE BD_NET_CD_NONACK_ID

\* The channels of the frames the client builds on its own.
SeqChannels == {BD_NET_CD_NONACK_ID, BD_NET_CD_VIDEO_ACK_ID}

\* New(): tmpFrame{} and a fresh generator.
NewTmpFrame ==
  [arstreamACK |-> [FrameNumber |-> 0, HighPacketsAck |-> {},
                    LowPacketsAck |-> {}],
   fragments |-> [made |-> FALSE, at |-> << >>],
   frame |-> << >>,
   waitForIframe |-> FALSE,
   frameFlags |-> 0]

\* New: Pcmd: Pcmd{Flag: 0, Roll: 0, Pitch: 0, Yaw: 0, Gaz: 0, Psi: 0}
NewPcmd ==
  [Flag |-> 0, Roll |-> 0, Pitch |-> 0, Yaw |-> 0, Gaz |-> 0, Psi |-> 0]

\* The fields of b.Pcmd in the order generatePcmd serializes them.
FieldOrder == << "Flag", "Roll", "Pitch", "Yaw", "Gaz" >>

PcmdFields(c) == [i \in 1..5 |-> c[FieldOrder[i]]]

\* No buffer: the goroutine is not in b.write, the writer holds nothing.
\* (A buffer handed to b.write has at least the 7 bytes of a header.)
None == << >>

\* No setter under way.
NoSetter == [op |-> "idle", val |-> 0, pending |-> {}]

\* No frame built yet.
NoCodec ==
  [stage |-> "none", cmd |-> << >>, frameType |-> 0, id |-> 0, sq |-> 0,
   bytes |-> << >>, frame |-> NewNetworkFrame(<< >>)]

\* No frame has been sent on b.video yet.
NoFrame == -1

\* The last packetReceiver call replaced no frame in progress.
NoneReplaced ==
  [any |-> FALSE, complete |-> FALSE, eligible |-> FALSE, ready |-> FALSE]

Init ==
  /\ tmpFrame = NewTmpFrame
  /\ seq = << >>
  /\ panicked = FALSE
  /\ nRead = 0
  /\ data = << >>
  /\ writeChan = << >>
  /\ video = << >>
  /\ receiving = FALSE
  /\ perFrame = 0
  /\ replaced = NoneReplaced
  /\ lastSent = NoFrame
  /\ pc = [p \in Procs |-> "idle"]
  /\ reg = [p \in Procs |-> 0]
  /\ returned = [id \in SeqChannels |-> << >>]
  /\ nCalls = 0
  /\ codec = NoCodec
  /\ Pcmd = NewPcmd
  /\ lastCall = [op |-> "none", val |-> 0]
  /\ setter = NoSetter
  /\ hbRead = << >>
  /\ snapshot = << >>
  /\ completed = {PcmdFields(NewPcmd)}
  /\ nSetters = 0
  /\ sending = [p \in Procs |-> None]
  /\ held = None
  /\ enqueued = << >>
  /\ socket = << >>
  /\ grace = GraceTicks
  /\ hbSleep = 0

\* One turn of the reader loop of Connect: a datagram is read and handled.
PacketReceiver(buf) ==
  /\ ~panicked
  /\ nRead < MaxDatagrams
  /\ \E r \in {packetReceiver(buf, tmpFrame, seq, receiving)},
        f \in {NewNetworkFrame(buf)} :
       \E ar \in {NewARStreamFrame(f.Data)} :
         /\ panicked' = ~r.ok
         /\ tmpFrame' = r.tmpFrame
         /\ seq' = r.seq
         /\ writeChan' = r.writes
         /\ video' = r.sent
         /\ receiving' = IF r.sent # << >> THEN FALSE ELSE receiving
         /\ perFrame' = IF /\ f.ok
                           /\ f.Type = ARNETWORKAL_FRAME_TYPE_DATA_LOW_LATENCY
                           /\ f.ID = BD_NET_DC_VIDEO_DATA_ID
                           /\ ar.ok
                        THEN ar.FragmentsPerFrame ELSE perFrame
         /\ replaced' =
              IF /\ DOMAIN tmpFrame.fragments.at # {}
                 /\ r.tmpFrame.arstreamACK.FrameNumber
                      # tmpFrame.arstreamACK.FrameNumber
              THEN [any |-> TRUE,
                    complete |-> \A i \in 0..(perFrame - 1) :
                                   i \in DOMAIN tmpFrame.fragments.at,
                    eligible |-> \/ tmpFrame.frameFlags = 1
                                 \/ ~tmpFrame.waitForIframe,
                    ready |-> receiving]
              ELSE NoneReplaced
         /\ lastSent' = IF r.sent # << >>
                        THEN tmpFrame.arstreamACK.FrameNumber ELSE lastSent
  /\ nRead' = nRead + 1
  /\ data' = buf
  /\ UNCHANGED callVars
  /\ UNCHANGED extraVars

\* The application receives from the channel Video() returns.
VideoReceive ==
  /\ ~panicked
  /\ ~receiving
  /\ receiving' = TRUE
  /\ UNCHANGED << tmpFrame, seq, panicked, nRead, data, writeChan, video,
                  perFrame, replaced, lastSent >>
  /\ UNCHANGED callVars
  /\ UNCHANGED extraVars

(***************************************************************************)
(* The drone and the network: the datagrams the reader is given.           *)
(***************************************************************************)
\* Frame numbers around the uint16 wrap.
FrameNumbers == {65535, 0, 1}
\* frameFlags: bit 0 marks a key frame.
FrameFlagValues == {0, 1}
\* << fragmentsPerFrame a frame declares, index of a fragment that arrives >>:
\* of a frame of 65 fragments only the last one gets through.
Fragmentations == {<< 1, 0 >>, << 2, 0 >>, << 2, 1 >>, << 65, 64 >>}
\* Fragment payloads.
Payloads == {<< >>, << 1 >>, << 2 >>}

\* A frame as the drone puts it on the wire (ARNETWORKAL_Frame_t).
WireFrame(frameType, id, sq, payload) == FrameBytes(payload, frameType, id, sq)

\* A video fragment (ARSTREAM_NetworkHeaders_DataHeader_t and its data).
VideoDatagram(fn, fl, idx, k, payload) ==
  WireFrame(ARNETWORKAL_FRAME_TYPE_DATA_LOW_LATENCY, BD_NET_DC_VIDEO_DATA_ID,
            0, PutUint16(fn) \o << fl, idx, k >> \o payload)

\* The drone sends a fragment of a frame: every fragment of one frame
\* carries that frame's flags and fragment count, and an index below the
\* count; the network loses, repeats and reorders fragments.
DroneVideo ==
  \E fn \in FrameNumbers, fl \in FrameFlagValues, ki \in Fragmentations,
     payload \in Payloads :
    /\ (fn = tmpFrame.arstreamACK.FrameNumber /\ tmpFrame.fragments.at # << >>)
         => (ki[1] = perFrame /\ fl = tmpFrame.frameFlags)
    /\ PacketReceiver(VideoDatagram(fn, fl, ki[2], ki[1], payload))

Next ==
  \/ DroneVideo
  \/ VideoReceive

Spec == Init /\ [][Next]_vars

(***************************************************************************)
(* Mixed traffic: frames of every type on the ping channel, the video      *)
(* channel and a channel of the upper half.                                *)
(***************************************************************************)
InboundTypes ==
  {ARNETWORKAL_FRAME_TYPE_DATA, ARNETWORKAL_FRAME_TYPE_DATA_LOW_LATENCY,
   ARNETWORKAL_FRAME_TYPE_DATA_WITH_ACK}
InboundIDs ==
  {ARNETWORK_MANAGER_INTERNAL_BUFFER_ID_PING, BD_NET_DC_VIDEO_DATA_ID, 200}
\* The drone's own sequence number.
InboundSeqs == {3}
\* Payloads: empty, one byte, a four byte command header (project 1,
\* class 4, command 12) and a one-fragment video frame (frame 1, key).
InboundPayloads ==
  {<< >>, << 9 >>, << 1, 4, 12, 0 >>, PutUint16(1) \o << 1, 0, 1, 7 >>}

DroneFrame ==
  \E ty \in InboundTypes, id \in InboundIDs, sq \in InboundSeqs,
     payload \in InboundPayloads :
    PacketReceiver(WireFrame(ty, id, sq, payload))

NextDispatch ==
  \/ DroneFrame
  \/ VideoReceive

SpecDispatch == Init /\ [][NextDispatch]_vars

(***************************************************************************)
(* Datagrams that are no frame: too short for a header, or with a size     *)
(* field that is not the number of bytes received.                         *)
(***************************************************************************)
\* Empty (a failed ReadFromUDP leaves i = 0), two bytes, a header cut after
\* the first byte of its size field, a header one byte short, a size field
\* beyond the bytes received, with and without a payload.
MalformedDatagrams ==
  { << >>,
    << ARNETWORKAL_FRAME_TYPE_DATA, ARNETWORK_MANAGER_INTERNAL_BUFFER_ID_PING >>,
    << ARNETWORKAL_FRAME_TYPE_DATA, ARNETWORK_MANAGER_INTERNAL_BUFFER_ID_PING,
       3, 7 >>,
    << ARNETWORKAL_FRAME_TYPE_DATA_WITH_ACK, 200, 3, 7, 0, 0 >>,
    << ARNETWORKAL_FRAME_TYPE_DATA, ARNETWORK_MANAGER_INTERNAL_BUFFER_ID_PING,
       3, 9, 0, 0, 0 >>,
    << ARNETWORKAL_FRAME_TYPE_DATA_WITH_ACK, 200, 3, 12, 0, 0, 0, 5 >> }

DroneMalformed ==
  /\ nRead < MaxDatagrams
  /\ \E buf \in MalformedDatagrams : PacketReceiver(buf)

NextMalformed == DroneMalformed \/ DroneFrame \/ VideoReceive

SpecMalformed == Init /\ [][NextMalformed]_vars

(***************************************************************************)
(* The frame generator called again and again by one goroutine at a time.  *)
(***************************************************************************)
\* b.write(b.networkFrameGenerator(cmd, frameType, id).Bytes()), as in
\* TakeOff, Land, FlatTrim, ...: the frame is built and handed to the writer.
GenerateFrame(cmd, frameType, id) ==
  /\ ~panicked
  /\ \E g \in {networkFrameGenerator(seq, cmd, frameType, id)} :
       /\ seq' = g.seq
       /\ writeChan' = << g.ret >>
  /\ UNCHANGED << panicked >>
  /\ UNCHANGED readerVars
  /\ UNCHANGED extraVars
  /\ UNCHANGED callVars

NextSeq ==
  \E id \in SeqChannels :
    GenerateFrame(<< >>, ARNETWORKAL_FRAME_TYPE_DATA, id)

SpecSeq == Init /\ [][NextSeq]_vars

(***************************************************************************)
(* The frame generator called by several goroutines at once. The closure   *)
(* takes no lock: each access to the map seq is a step of its own.         *)
(***************************************************************************)
\* calls of the frame generator in one run
MaxCalls == 4

\* A goroutine enters the closure (line 134).
Call(p) ==
  /\ ~panicked
  /\ pc[p] = "idle"
  /\ nCalls < MaxCalls
  /\ nCalls' = nCalls + 1
  /\ pc' = [pc EXCEPT ![p] = "check"]
  /\ UNCHANGED << seq, panicked, writeChan, reg, returned >>
  /\ UNCHANGED readerVars
  /\ UNCHANGED extraVars

\* Line 135: _, ok := seq[id]
Check(p) ==
  /\ ~panicked
  /\ pc[p] = "check"
  /\ pc' = [pc EXCEPT ![p] =
              IF ChannelOf(p) \in DOMAIN seq THEN "load" ELSE "create"]
  /\ UNCHANGED << seq, panicked, writeChan, reg, returned, nCalls >>
  /\ UNCHANGED readerVars
  /\ UNCHANGED extraVars

\* Line 136: seq[id] = 0
Create(p) ==
  /\ ~panicked
  /\ pc[p] = "create"
  /\ seq' = [k \in (DOMAIN seq) \cup {ChannelOf(p)} |->
               IF k = ChannelOf(p) THEN 0 ELSE seq[k]]
  /\ pc' = [pc EXCEPT ![p] = "load"]
  /\ UNCHANGED << panicked, writeChan, reg, returned, nCalls >>
  /\ UNCHANGED readerVars
  /\ UNCHANGED extraVars

\* Line 139, seq[id]++: the read
Load(p) ==
  /\ ~panicked
  /\ pc[p] = "load"
  /\ reg' = [reg EXCEPT ![p] = seq[ChannelOf(p)]]
  /\ pc' = [pc EXCEPT ![p] = "store"]
  /\ UNCHANGED << seq, panicked, writeChan, returned, nCalls >>
  /\ UNCHANGED readerVars
  /\ UNCHANGED extraVars

\* Line 139, seq[id]++: the write
Store(p) ==
  /\ ~panicked
  /\ pc[p] = "store"
  /\ seq' = [seq EXCEPT ![ChannelOf(p)] = (reg[p] + 1) % ByteMod]
  /\ pc' = [pc EXCEPT ![p] = "emit"]
  /\ UNCHANGED << panicked, writeChan, reg, returned, nCalls >>
  /\ UNCHANGED readerVars
  /\ UNCHANGED extraVars

\* Line 148: ret.WriteByte(seq[id]); the closure returns the frame.
Emit(p) ==
  /\ ~panicked
  /\ pc[p] = "emit"
  /\ returned' = [returned EXCEPT ![ChannelOf(p)] =
                    Append(@, seq[ChannelOf(p)])]
  /\ pc' = [pc EXCEPT ![p] = "idle"]
  /\ UNCHANGED << seq, panicked, writeChan, reg, nCalls >>
  /\ UNCHANGED readerVars
  /\ UNCHANGED extraVars

\* A goroutine is about to write the map while another is about to access
\* it: the runtime may end the process with "concurrent map writes" /
\* "concurrent map read and map write".
MapRace ==
  /\ ~panicked
  /\ \E p, q \in Procs :
       /\ p # q
       /\ pc[p] \in {"create", "store"}
       /\ pc[q] \in {"check", "create", "load", "store", "emit"}
  /\ panicked' = TRUE
  /\ UNCHANGED << seq, writeChan, reg, returned, nCalls, pc >>
  /\ UNCHANGED readerVars
  /\ UNCHANGED extraVars

NextConc ==
  \/ \E p \in Procs : Call(p)
  \/ \E p \in Procs : Check(p)
  \/ \E p \in Procs : Create(p)
  \/ \E p \in Procs : Load(p)
  \/ \E p \in Procs : Store(p)
  \/ \E p \in Procs : Emit(p)
  \/ MapRace

SpecConc == Init /\ [][NextConc]_vars

(***************************************************************************)
(* The frame codec by itself: a frame is built by the generator and the    *)
(* bytes it returned are decoded by NewNetworkFrame.                       *)
(***************************************************************************)
\* Payloads handed to the generator; the long one makes the size field use
\* its second byte.
CodecPayloads ==
  {<< >>, <<0>>, <<255>>, <<7, 0>>, <<1, 2, 3>>, [i \in 1..250 |-> i]}

CodecTypes ==
  {ARNETWORKAL_FRAME_TYPE_ACK, ARNETWORKAL_FRAME_TYPE_DATA,
   ARNETWORKAL_FRAME_TYPE_DATA_LOW_LATENCY, ARNETWORKAL_FRAME_TYPE_DATA_WITH_ACK}

CodecIDs == {0, BD_NET_CD_NONACK_ID, 255}

\* The counter of the channel before the call: never used, in mid cycle,
\* about to wrap.
CodecCounters(id) == {<< >>, [k \in {id} |-> 41], [k \in {id} |-> 255]}

\* ret := b.networkFrameGenerator(cmd, frameType, id)
Encode(s, cmd, frameType, id) ==
  /\ \E g \in {networkFrameGenerator(s, cmd, frameType, id)} :
       codec' = [stage |-> "encoded", cmd |-> cmd, frameType |-> frameType,
                 id |-> id, sq |-> g.seq[id], bytes |-> g.ret,
                 frame |-> NoCodec.frame]
  /\ UNCHANGED exceptCodec

\* NewNetworkFrame(ret.Bytes())
Decode ==
  /\ codec.stage = "encoded"
  /\ codec' = [codec EXCEPT !.stage = "decoded",
                            !.frame = NewNetworkFrame(codec.bytes)]
  /\ UNCHANGED exceptCodec

NextCodec ==
  \/ \E cmd \in CodecPayloads, frameType \in CodecTypes, id \in CodecIDs :
       \E s \in CodecCounters(id) : Encode(s, cmd, frameType, id)
  \/ Decode

SpecCodec == Init /\ [][NextCodec]_vars

(***************************************************************************)
(* The setters of the piloting command, called one after the other.        *)
(***************************************************************************)
\* Arguments of the setters: below 0, 0, in range, the limit, beyond it.
PcmdVals == {-150, -1, 0, 50, 100, 150}

Up(val) ==
  /\ Pcmd' = [Pcmd EXCEPT !.Flag = 1, !.Gaz = validatePitch(val)]
  /\ lastCall' = [op |-> "Up", val |-> val]
  /\ UNCHANGED exceptPcmd

Down(val) ==
  /\ Pcmd' = [Pcmd EXCEPT !.Flag = 1, !.Gaz = validatePitch(val) * (-1)]
  /\ lastCall' = [op |-> "Down", val |-> val]
  /\ UNCHANGED exceptPcmd

Forward(val) ==
  /\ Pcmd' = [Pcmd EXCEPT !.Flag = 1, !.Pitch = validatePitch(val)]
  /\ lastCall' = [op |-> "Forward", val |-> val]
  /\ UNCHANGED exceptPcmd

Backward(val) ==
  /\ Pcmd' = [Pcmd EXCEPT !.Flag = 1, !.Pitch = validatePitch(val) * (-1)]
  /\ lastCall' = [op |-> "Backward", val |-> val]
  /\ UNCHANGED exceptPcmd

Right(val) ==
  /\ Pcmd' = [Pcmd EXCEPT !.Flag = 1, !.Roll = validatePitch(val)]
  /\ lastCall' = [op |-> "Right", val |-> val]
  /\ UNCHANGED exceptPcmd

Left(val) ==
  /\ Pcmd' = [Pcmd EXCEPT !.Flag = 1, !.Roll = validatePitch(val) * (-1)]
  /\ lastCall' = [op |-> "Left", val |-> val]
  /\ UNCHANGED exceptPcmd

Clockwise(val) ==
  /\ Pcmd' = [Pcmd EXCEPT !.Flag = 1, !.Yaw = validatePitch(val)]
  /\ lastCall' = [op |-> "Clockwise", val |-> val]
  /\ UNCHANGED exceptPcmd

CounterClockwise(val) ==
  /\ Pcmd' = [Pcmd EXCEPT !.Flag = 1, !.Yaw = validatePitch(val) * (-1)]
  /\ lastCall' = [op |-> "CounterClockwise", val |-> val]
  /\ UNCHANGED exceptPcmd

Stop ==
  /\ Pcmd' = NewPcmd
  /\ lastCall' = [op |-> "Stop", val |-> 0]
  /\ UNCHANGED exceptPcmd

NextPcmd ==
  \/ \E val \in PcmdVals : Up(val)
  \/ \E val \in PcmdVals : Down(val)
  \/ \E val \in PcmdVals : Forward(val)
  \/ \E val \in PcmdVals : Backward(val)
  \/ \E val \in PcmdVals : Right(val)
  \/ \E val \in PcmdVals : Left(val)
  \/ \E val \in PcmdVals : Clockwise(val)
  \/ \E val \in PcmdVals : CounterClockwise(val)
  \/ Stop

SpecPcmd == Init /\ [][NextPcmd]_vars

(***************************************************************************)
(* The setters called while the heartbeat goroutine runs generatePcmd.     *)
(* b.Pcmd is guarded by nothing: every write and every read of a field is  *)
(* a step of its own.                                                      *)
(***************************************************************************)
\* setter and Stop calls made next to the heartbeat in one run
MaxSetterCalls == 2

SetterOps ==
  {"Up", "Down", "Forward", "Backward", "Right", "Left", "Clockwise",
   "CounterClockwise"}

\* The field a setter writes after Flag.
FieldOf(op) ==
  CASE op \in {"Up", "Down"} -> "Gaz"
    [] op \in {"Forward", "Backward"} -> "Pitch"
    [] op \in {"Right", "Left"} -> "Roll"
    [] op \in {"Clockwise", "CounterClockwise"} -> "Yaw"

\* The value it writes there.
ValueOf(op, val) ==
  IF op \in {"Up", "Forward", "Right", "Clockwise"}
  THEN validatePitch(val) ELSE validatePitch(val) * (-1)

\* First statement of a setter: b.Pcmd.Flag = 1
SetFlag(op, val) ==
  /\ setter.op = "idle"
  /\ nSetters < MaxSetterCalls
  /\ nSetters' = nSetters + 1
  /\ Pcmd' = [Pcmd EXCEPT !.Flag = 1]
  /\ setter' = [op |-> op, val |-> val, pending |-> {FieldOf(op)}]
  /\ UNCHANGED << lastCall, hbRead, snapshot, completed >>
  /\ UNCHANGED exceptRace

\* Second statement of a setter: its own field; the call returns.
SetAxis ==
  /\ setter.op \in SetterOps
  /\ Pcmd' = [Pcmd EXCEPT ![FieldOf(setter.op)] = ValueOf(setter.op, setter.val)]
  /\ lastCall' = [op |-> setter.op, val |-> setter.val]
  /\ completed' = completed \cup {PcmdFields(Pcmd')}
  /\ setter' = NoSetter
  /\ UNCHANGED << hbRead, snapshot, nSetters >>
  /\ UNCHANGED exceptRace

\* Stop is entered: the struct assignment b.Pcmd = Pcmd{...} lies ahead.
StopCall ==
  /\ setter.op = "idle"
  /\ nSetters < MaxSetterCalls
  /\ nSetters' = nSetters + 1
  /\ setter' = [op |-> "Stop", val |-> 0,
                pending |-> {FieldOrder[i] : i \in 1..5}]
  /\ UNCHANGED << Pcmd, lastCall, hbRead, snapshot, completed >>
  /\ UNCHANGED exceptRace

\* The struct assignment stores one more field, in no fixed order; with the
\* last one Stop returns.
StopField(f) ==
  /\ setter.op = "Stop"
  /\ f \in setter.pending
  /\ Pcmd' = [Pcmd EXCEPT ![f] = 0]
  /\ IF setter.pending = {f}
     THEN /\ setter' = NoSetter
          /\ lastCall' = [op |-> "Stop", val |-> 0]
          /\ completed' = completed \cup {PcmdFields(Pcmd')}
     ELSE /\ setter' = [setter EXCEPT !.pending = @ \ {f}]
          /\ UNCHANGED << lastCall, completed >>
  /\ UNCHANGED << hbRead, snapshot, nSetters >>
  /\ UNCHANGED exceptRace

\* generatePcmd reads the next field of b.Pcmd (lines 532-564).
ReadField ==
  /\ Len(hbRead) < 5
  /\ hbRead' = Append(hbRead, Pcmd[FieldOrder[Len(hbRead) + 1]])
  /\ UNCHANGED << Pcmd, lastCall, setter, snapshot, completed, nSetters >>
  /\ UNCHANGED exceptRace

\* generatePcmd has read the five fields: the command is serialized.
Serialize ==
  /\ Len(hbRead) = 5
  /\ snapshot' = hbRead
  /\ hbRead' = << >>
  /\ UNCHANGED << Pcmd, lastCall, setter, completed, nSetters >>
  /\ UNCHANGED exceptRace

NextPcmdRace ==
  \/ \E op \in SetterOps, val \in {50, 150} : SetFlag(op, val)
  \/ SetAxis
  \/ StopCall
  \/ \E f \in {"Flag", "Roll", "Pitch", "Yaw", "Gaz"} : StopField(f)
  \/ ReadField
  \/ Serialize

SpecPcmdRace == Init /\ [][NextPcmdRace]_vars

(***************************************************************************)
(* The outbound queue. b.writeChan is unbuffered: a goroutine in b.write   *)
(* stays blocked until the writer goroutine of Connect receives its        *)
(* buffer; the writer then passes the buffer to c2dClient.Write and comes  *)
(* back to receive.                                                        *)
(***************************************************************************)
\* buffers the histories enqueued and socket keep
MaxFrames == 3

\* History of at most MaxFrames entries.
Record(log, x) == IF Len(log) < MaxFrames THEN Append(log, x) ELSE log

\* Buffers handed to b.write so far.
Submitted ==
  Len(enqueued) + Cardinality({p \in Procs : sending[p] # None})

\* The buffer a goroutine hands to b.write: a frame on its channel, told
\* from every other one by its payload and its sequence byte.
BufferOf(p) ==
  FrameBytes(<< CHOOSE n \in 1..3 :
                  p = << "caller", "heartbeat", "reader" >>[n] >>,
             ARNETWORKAL_FRAME_TYPE_DATA, ChannelOf(p), Submitted + 1)

\* The writer takes a buffer although it still holds one.
ReceiveOverwrites(p) ==
  /\ sending[p] # None
  /\ held' = sending[p]
  /\ sending' = [sending EXCEPT ![p] = None]
  /\ enqueued' = Record(enqueued, sending[p])
  /\ hbSleep' = IF p = "heartbeat" THEN 1 ELSE hbSleep
  /\ UNCHANGED socket
  /\ UNCHANGED exceptWriter

\* The writer takes a buffer only from a goroutine that is alone in b.write.
ReceiveWhenAlone(p) ==
  /\ held = None
  /\ sending[p] # None
  /\ \A q \in Procs \ {p} : sending[q] = None
  /\ held' = sending[p]
  /\ sending' = [sending EXCEPT ![p] = None]
  /\ enqueued' = Record(enqueued, sending[p])
  /\ hbSleep' = IF p = "heartbeat" THEN 1 ELSE hbSleep
  /\ UNCHANGED socket
  /\ UNCHANGED exceptWriter

\* A failed write leaves the buffer with the writer, which writes it again.
SocketWriteRetries(ok) ==
  /\ held # None
  /\ socket' = Record(socket, [buf |-> held, ok |-> ok])
  /\ held' = IF ok THEN None ELSE held
  /\ UNCHANGED << sending, enqueued, hbSleep >>
  /\ UNCHANGED exceptWriter

\* 25 ms go by for the sleeping heartbeat goroutine.
TimePasses ==
  /\ grace > 0 \/ hbSleep > 0
  /\ grace' = IF grace > 0 THEN grace - 1 ELSE grace
  /\ hbSleep' = IF grace > 0 THEN hbSleep ELSE 0
  /\ UNCHANGED << coreVars, codec, pcmdVars, raceVars, writerVars >>

\* b.write(buf): the goroutine starts sending on b.writeChan (line 219); the
\* heartbeat goroutine gets there only when it is not asleep.
Write(p) ==
  /\ sending[p] = None
  /\ p = "heartbeat" => (grace = 0 /\ hbSleep = 0)
  /\ Submitted < MaxFrames
  /\ sending' = [sending EXCEPT ![p] = BufferOf(p)]
  /\ UNCHANGED << held, enqueued, socket, hbSleep >>
  /\ UNCHANGED exceptWriter

\* <-b.writeChan in the writer (line 302) meets the send of p: b.write
\* returns in p, the writer has the buffer. The heartbeat goes on to its
\* time.Sleep(25 * time.Millisecond).
Receive(p) ==
  /\ held = None
  /\ sending[p] # None
  /\ held' = sending[p]
  /\ sending' = [sending EXCEPT ![p] = None]
  /\ enqueued' = Record(enqueued, sending[p])
  /\ hbSleep' = IF p = "heartbeat" THEN 1 ELSE hbSleep
  /\ UNCHANGED socket
  /\ UNCHANGED exceptWriter

\* b.c2dClient.Write(buf) returns, with or without an error; an error is
\* printed (lines 302-306) and the loop goes on.
SocketWrite(ok) ==
  /\ held # None
  /\ socket' = Record(socket, [buf |-> held, ok |-> ok])
  /\ held' = None
  /\ UNCHANGED << sending, enqueued, hbSleep >>
  /\ UNCHANGED exceptWriter

NextWriter ==
  \/ TimePasses
  \/ \E p \in Procs : Write(p)
  \/ \E p \in Procs : Receive(p)
  \/ \E ok \in BOOLEAN : SocketWrite(ok)

\* The writer goroutine is scheduled: a write to the UDP socket returns.
SpecWriter ==
  /\ Init
  /\ [][NextWriter]_vars
  /\ WF_vars(\E ok \in BOOLEAN : SocketWrite(ok))

\* A step of the writer goroutine.
WriterStep ==
  \/ \E p \in Procs : Receive(p)
  \/ \E ok \in BOOLEAN : SocketWrite(ok)

\* Fair scheduling: the writer goroutine runs, its socket writes return, and
\* the runtime hands the receive of line 302 to every goroutine that keeps
\* coming back to wait in the send of line 219.
SpecFair ==
  /\ Init
  /\ [][NextWriter]_vars
  /\ WF_vars(\E ok \in BOOLEAN : SocketWrite(ok))
  /\ \A p \in Procs : SF_vars(Receive(p))

(***************************************************************************)
(* From the frame generator to the socket: the application in TakeOff and  *)
(* the heartbeat goroutine each step through the closure, hand the frame   *)
(* it returned to b.write, and the writer passes the frames to the socket. *)
(***************************************************************************)
\* The command a goroutine frames: TakeOff's (lines 399-410) or the
\* heartbeat's piloting command.
CommandOfProc(p) ==
  IF p = "heartbeat"
  THEN PcmdBytes(Pcmd)
  ELSE << ARCOMMANDS_ID_PROJECT_ARDRONE3,
          ARCOMMANDS_ID_ARDRONE3_CLASS_PILOTING >>
         \o PutUint16(ARCOMMANDS_ID_ARDRONE3_PILOTING_CMD_TAKEOFF)

\* The goroutine is not in b.write, the heartbeat not asleep: it enters the
\* closure.
CallGenerator(p) ==
  /\ sending[p] = None
  /\ p = "heartbeat" => (grace = 0 /\ hbSleep = 0)
  /\ Call(p)

\* Lines 141-160 and 219: the closure writes seq[id] into the frame and
\* returns it, and the goroutine starts sending it on b.writeChan.
WriteGenerated(p) ==
  /\ ~panicked
  /\ pc[p] = "emit"
  /\ returned' = [returned EXCEPT ![ChannelOf(p)] =
                    Append(@, seq[ChannelOf(p)])]
  /\ pc' = [pc EXCEPT ![p] = "idle"]
  /\ sending' = [sending EXCEPT ![p] =
                   FrameBytes(CommandOfProc(p), ARNETWORKAL_FRAME_TYPE_DATA,
                              ChannelOf(p), seq[ChannelOf(p)])]
  /\ UNCHANGED << seq, panicked, writeChan, reg, nCalls >>
  /\ UNCHANGED readerVars
  /\ UNCHANGED << codec, pcmdVars, raceVars, held, enqueued, socket, grace,
                  hbSleep >>

\* The writer goroutine, as long as the process lives.
WriterReceives(p) ==
  /\ ~panicked
  /\ Receive(p)

WriterWrites ==
  /\ ~panicked
  /\ SocketWrite(TRUE)

\* The two goroutines that build frames for the non-ack channel.
NonAckProcs == {"caller", "heartbeat"}

NextOutbound ==
  \/ TimePasses
  \/ \E p \in NonAckProcs : CallGenerator(p)
  \/ \E p \in NonAckProcs : Check(p)
  \/ \E p \in NonAckProcs : Create(p)
  \/ \E p \in NonAckProcs : Load(p)
  \/ \E p \in NonAckProcs : Store(p)
  \/ \E p \in NonAckProcs : WriteGenerated(p)
  \/ MapRace
  \/ \E p \in NonAckProcs : WriterReceives(p)
  \/ WriterWrites

SpecOutbound == Init /\ [][NextOutbound]_vars

(***************************************************************************)
(* The reader handling the drone's frames while the application runs:      *)
(* the application receives video and calls the setters of b.Pcmd.         *)
(***************************************************************************)
NextTasks ==
  \/ DroneFrame
  \/ VideoReceive
  \/ Backward(150)
  \/ Stop

SpecTasks == Init /\ [][NextTasks]_vars

(***************************************************************************)
(* The heartbeat goroutine of Connect: it sleeps 500 ms, then for ever     *)
(* builds the piloting command, hands it to b.write and sleeps 25 ms,      *)
(* while the application calls setters. generatePcmd reads b.Pcmd field by *)
(* field, next to the setters' writes.                                     *)
(***************************************************************************)
\* The heartbeat is awake and in generatePcmd.
HeartbeatAwake ==
  /\ grace = 0
  /\ hbSleep = 0
  /\ sending["heartbeat"] = None

\* generatePcmd reads the next field of b.Pcmd.
HeartbeatRead ==
  /\ HeartbeatAwake
  /\ ReadField

\* The five fields are read: networkFrameGenerator frames the command and
\* b.write(...) reaches the send on b.writeChan.
HeartbeatTick ==
  /\ HeartbeatAwake
  /\ Len(hbRead) = 5
  /\ \E g \in {generatePcmd(seq, [Flag |-> hbRead[1], Roll |-> hbRead[2],
                                  Pitch |-> hbRead[3], Yaw |-> hbRead[4],
                                  Gaz |-> hbRead[5], Psi |-> Pcmd.Psi])} :
       /\ seq' = g.seq
       /\ sending' = [sending EXCEPT !["heartbeat"] = g.ret]
  /\ snapshot' = hbRead
  /\ hbRead' = << >>
  /\ UNCHANGED << tmpFrame, panicked, nRead, data, writeChan, video,
                  receiving, perFrame, replaced, lastSent, pc, reg, returned,
                  nCalls >>
  /\ UNCHANGED << codec, pcmdVars, setter, completed, nSetters, held,
                  enqueued, socket, grace, hbSleep >>

NextHeartbeat ==
  \/ TimePasses
  \/ HeartbeatRead
  \/ HeartbeatTick
  \/ Receive("heartbeat")
  \/ SocketWrite(TRUE)
  \/ SetFlag("Backward", 150)
  \/ SetAxis

\* Time goes by, and the heartbeat and the writer goroutines are scheduled.
SpecHeartbeat ==
  /\ Init
  /\ [][NextHeartbeat]_vars
  /\ WF_vars(TimePasses)
  /\ WF_vars(HeartbeatRead)
  /\ WF_vars(HeartbeatTick)
  /\ WF_vars(Receive("heartbeat"))
  /\ WF_vars(SocketWrite(TRUE))

(***************************************************************************)
(* Vocabulary of the properties.                                           *)
(***************************************************************************)
\* The datagram of the last packetReceiver call, decoded.
LastFrame == NewNetworkFrame(data)

\* It was a low-latency frame on the video channel.
LastWasVideo ==
  /\ nRead > 0
  /\ LastFrame.ok
  /\ LastFrame.Type = ARNETWORKAL_FRAME_TYPE_DATA_LOW_LATENCY
  /\ LastFrame.ID = BD_NET_DC_VIDEO_DATA_ID

\* The video fragment it carried.
LastFragment == NewARStreamFrame(LastFrame.Data)

\* This step is a packetReceiver call.
ReaderStep == nRead' = nRead + 1

\* This step is a packetReceiver call whose fragment replaces a frame in
\* progress (one with fragments) by a frame of another number.
FrameChange ==
  /\ ReaderStep
  /\ DOMAIN tmpFrame.fragments.at # {}
  /\ tmpFrame'.arstreamACK.FrameNumber # tmpFrame.arstreamACK.FrameNumber

\* Every index 0..k-1 has been received.
AllReceived(m, k) == \A i \in 0..(k - 1) : i \in DOMAIN m

\* The payloads of indices 0..k-1, concatenated in ascending index order.
RECURSIVE Ascending(_, _)
Ascending(m, k) == IF k = 0 THEN << >> ELSE Ascending(m, k - 1) \o m[k - 1]

\* The flags of the frame in progress mark a key frame.
InProgressIsKey == tmpFrame.frameFlags % 2 = 1

\* The fragment indices an ack packet (the payload of a video ack frame)
\* marks as received: bit n of lowPacketsAck is index n, bit n of
\* highPacketsAck is index n + 64.
AckedIndices(packet) ==
  Uint64Bits(SubSeq(packet, 11, 18))
    \cup { n + 64 : n \in Uint64Bits(SubSeq(packet, 3, 10)) }

\* The frame number of an ack packet.
AckedFrameNumber(packet) == packet[1] + 256 * packet[2]

\* The positions in writeChan of the frames of a type on a channel.
Written(frameType, id) ==
  { i \in 1..Len(writeChan) :
      FrameType(writeChan[i]) = frameType /\ FrameID(writeChan[i]) = id }

(***************************************************************************)
(* C1. A frame whose declared fragments 0..k-1 were all received while it  *)
(* was in progress, that is eligible (a key frame, or waitForIframe is     *)
(* false) and finds the consumer receiving when a fragment of another      *)
(* frame number arrives, is delivered, once, as the concatenation of its   *)
(* payloads in ascending index order.                                      *)
(***************************************************************************)
C1_CompleteFrameDelivered ==
  [][ ( /\ FrameChange
        /\ AllReceived(tmpFrame.fragments.at, perFrame)
        /\ (InProgressIsKey \/ ~tmpFrame.waitForIframe)
        /\ receiving )
      => video' = << Ascending(tmpFrame.fragments.at, perFrame) >> ]_vars

(***************************************************************************)
(* C2. No partial frame is delivered: when the frame in progress is        *)
(* replaced and one of its declared indices 0..k-1 was not received,       *)
(* nothing is sent on the video channel.                                   *)
(***************************************************************************)
C2_NoPartialFrame ==
  [][ (FrameChange /\ ~AllReceived(tmpFrame.fragments.at, perFrame))
      => video' = << >> ]_vars

(***************************************************************************)
(* C3. While waitForIframe is true the only frame delivered is a           *)
(* completely received key frame, and waitForIframe goes back to false     *)
(* only with that delivery.                                                *)
(***************************************************************************)
C3_ResyncOnKeyFrame ==
  [][ (ReaderStep /\ tmpFrame.waitForIframe)
      => /\ video' # << >>
              => /\ InProgressIsKey
                 /\ AllReceived(tmpFrame.fragments.at, perFrame)
                 /\ video' = << Ascending(tmpFrame.fragments.at, perFrame) >>
         /\ ~tmpFrame'.waitForIframe => video' # << >> ]_vars

(***************************************************************************)
(* C4. A fragment that changes the frame number in progress from p to fn   *)
(* sets waitForIframe exactly when fn # (p + 1) mod 65536; the successor   *)
(* (65535 -> 0 included) and a fragment of the frame in progress never     *)
(* set it.                                                                 *)
(***************************************************************************)
C4_GapSetsWaitForIframe ==
  [][ (ReaderStep /\ ~panicked' /\ DOMAIN tmpFrame.fragments.at # {})
      => LET p  == tmpFrame.arstreamACK.FrameNumber
             fn == tmpFrame'.arstreamACK.FrameNumber
         IN  IF fn # p /\ fn # (p + 1) % FrameNumberMod
             THEN tmpFrame'.waitForIframe
             ELSE tmpFrame'.waitForIframe => tmpFrame.waitForIframe ]_vars

(***************************************************************************)
(* C5. The bits set in an emitted ack packet are exactly the fragment      *)
(* indices received for the frame in progress since it became in progress. *)
(***************************************************************************)
C5_AckBitsAreReceivedIndices ==
  (LastWasVideo /\ ~panicked)
    => /\ Len(writeChan) = 1
       /\ AckedIndices(FramePayload(writeChan[1]))
            = DOMAIN tmpFrame.fragments.at

(***************************************************************************)
(* C6. Every video fragment given to the reassembler is answered by        *)
(* exactly one ack packet, on that fragment, carrying the frame number of  *)
(* the fragment.                                                           *)
(***************************************************************************)
C6_OneAckPerFragment ==
  LastWasVideo
    => /\ Len(writeChan) = 1
       /\ Written(ARNETWORKAL_FRAME_TYPE_DATA, BD_NET_CD_VIDEO_ACK_ID) = {1}
       /\ LastFragment.ok
       /\ AckedFrameNumber(FramePayload(writeChan[1]))
            = LastFragment.FrameNumber

(***************************************************************************)
(* C7. A frame of type "data with ack" is answered by exactly one frame    *)
(* of type ack, on channel id + ID_MAX/2 (a channel id is a byte), whose   *)
(* payload is the one byte seq; a frame of another type by none.           *)
(***************************************************************************)
AcksWritten ==
  { i \in 1..Len(writeChan) :
      FrameType(writeChan[i]) = ARNETWORKAL_FRAME_TYPE_ACK }

C7_OneAckPerAckRequired ==
  (nRead > 0 /\ LastFrame.ok)
    => IF LastFrame.Type = ARNETWORKAL_FRAME_TYPE_DATA_WITH_ACK
       THEN /\ Cardinality(AcksWritten) = 1
            /\ \A i \in AcksWritten :
                 /\ FrameID(writeChan[i])
                      = (LastFrame.ID + ARNETWORKAL_MANAGER_DEFAULT_ID_MAX \div 2)
                          % ByteMod
                 /\ FramePayload(writeChan[i]) = << LastFrame.Seq >>
       ELSE AcksWritten = {}

(***************************************************************************)
(* C8. A frame on the ping channel is answered by exactly one pong on the  *)
(* pong channel whose payload is the ping's payload, byte for byte; a      *)
(* frame on another channel by none.                                       *)
(***************************************************************************)
PongsWritten ==
  Written(ARNETWORKAL_FRAME_TYPE_DATA, ARNETWORK_MANAGER_INTERNAL_BUFFER_ID_PONG)

C8_PongEchoesPing ==
  (nRead > 0 /\ LastFrame.ok)
    => IF LastFrame.ID = ARNETWORK_MANAGER_INTERNAL_BUFFER_ID_PING
       THEN /\ Cardinality(PongsWritten) = 1
            /\ \A i \in PongsWritten :
                 FramePayload(writeChan[i]) = LastFrame.Data
       ELSE PongsWritten = {}

(***************************************************************************)
(* C9. Each call of the frame generator for a channel returns the          *)
(* channel's previous sequence byte plus one modulo 256, counting a        *)
(* channel never used before as 0: the first call returns 1, and 255 is    *)
(* followed by 0 and then 1. The counter of the channel holds the byte     *)
(* returned, and the counters of the other channels are left as they were. *)
(***************************************************************************)
PreviousSeq(id) == IF id \in DOMAIN seq THEN seq[id] ELSE 0

C9_SeqPerChannel ==
  [][ /\ Len(writeChan') = 1
      /\ LET id == FrameID(writeChan'[1])
         IN  /\ id \in SeqChannels
             /\ FrameSeq(writeChan'[1]) = (PreviousSeq(id) + 1) % 256
             /\ DOMAIN seq' = (DOMAIN seq) \cup {id}
             /\ seq'[id] = FrameSeq(writeChan'[1])
             /\ \A c \in (DOMAIN seq) \ {id} : seq'[c] = seq[c]
    ]_vars

\* A channel's counter has gone through 255 and the frame just built carries
\* sequence byte 0, while the other channel's counter stands elsewhere.
C9_Wrapped ==
  /\ Len(writeChan) = 1
  /\ FrameID(writeChan[1]) = BD_NET_CD_NONACK_ID
  /\ FrameSeq(writeChan[1]) = 0
  /\ DOMAIN seq = SeqChannels
  /\ seq[BD_NET_CD_NONACK_ID] = 0
  /\ seq[BD_NET_CD_VIDEO_ACK_ID] = 7

(***************************************************************************)
(* C10. Whatever the interleaving of the goroutines calling the frame      *)
(* generator, once they have all returned, the sequence bytes handed out   *)
(* on a channel are those of the same calls made one after the other:      *)
(* 1, 2, ..., n in some order, none twice and none skipped.                *)
(***************************************************************************)
ReturnedSet(id) == { returned[id][i] : i \in 1..Len(returned[id]) }

C10_AsIfSerialized ==
  (\A p \in Procs : pc[p] = "idle")
    => \A id \in SeqChannels :
         ReturnedSet(id) = 1..Len(returned[id])

(***************************************************************************)
(* C11. Decoding the bytes the generator built for a payload, a type and   *)
(* a channel gives back that type, that channel, the sequence byte the     *)
(* generator put in and the payload, and the little-endian size field of   *)
(* the bytes is 7 + the length of the payload, the empty payload included. *)
(***************************************************************************)
C11_CodecRoundTrip ==
  /\ codec.stage # "none"
       => /\ Len(codec.bytes) = 7 + Len(codec.cmd)
          /\ SubSeq(codec.bytes, 4, 7) = PutUint32(7 + Len(codec.cmd))
  /\ codec.stage = "decoded"
       => /\ codec.frame.ok
          /\ codec.frame.Type = codec.frameType
          /\ codec.frame.ID = codec.id
          /\ codec.frame.Seq = codec.sq
          /\ codec.frame.Size = 7 + Len(codec.cmd)
          /\ codec.frame.Data = codec.cmd

\* The empty payload has gone round on a counter that wrapped to 0.
C11_DecodedEmpty ==
  /\ codec.stage = "decoded"
  /\ codec.cmd = << >>
  /\ codec.frame.ok
  /\ codec.frame.Data = << >>
  /\ codec.frame.Seq = 0

(***************************************************************************)
(* C12. A datagram shorter than the 7-byte header, the empty one included, *)
(* or whose size field is not the number of bytes received, is dropped:    *)
(* the reader does not fail, nothing is written, nothing is sent on the    *)
(* video channel, and the reassembly state and the sequence counters are   *)
(* as before.                                                              *)
(***************************************************************************)
Malformed(buf) ==
  \/ Len(buf) < hlen
  \/ SizeField(SubSeq(buf, 4, 7)) # Len(buf)

C12_MalformedDropped ==
  [][ (ReaderStep /\ Malformed(data'))
      => /\ ~panicked'
         /\ writeChan' = << >>
         /\ video' = << >>
         /\ tmpFrame' = tmpFrame
         /\ seq' = seq ]_vars

(***************************************************************************)
(* C13. The piloting command starts with flag and the four axes at 0. A    *)
(* setter sets flag to 1 and its own axis to sign * min(max(val, 0), 100)  *)
(* and leaves the other three axes as they were; Stop sets flag and the    *)
(* four axes to 0. Every axis is always within -100..100.                  *)
(***************************************************************************)
Clamp(val) == IF val < 0 THEN 0 ELSE IF val > 100 THEN 100 ELSE val

\* The axis a setter writes and the sign it applies.
AxisOf(op) ==
  CASE op \in {"Up", "Down"} -> "Gaz"
    [] op \in {"Forward", "Backward"} -> "Pitch"
    [] op \in {"Right", "Left"} -> "Roll"
    [] op \in {"Clockwise", "CounterClockwise"} -> "Yaw"

SignOf(op) ==
  IF op \in {"Up", "Forward", "Right", "Clockwise"} THEN 1 ELSE -1

Axes == {"Roll", "Pitch", "Yaw", "Gaz"}

C13_CommandState ==
  /\ [](/\ \A a \in Axes : Pcmd[a] \in -100..100
        /\ Pcmd.Flag \in {0, 1}
        /\ lastCall.op = "none"
             => (Pcmd.Flag = 0 /\ \A a \in Axes : Pcmd[a] = 0))
  /\ [][ IF lastCall'.op = "Stop"
         THEN Pcmd'.Flag = 0 /\ \A a \in Axes : Pcmd'[a] = 0
         ELSE /\ Pcmd'.Flag = 1
              /\ Pcmd'[AxisOf(lastCall'.op)]
                   = SignOf(lastCall'.op) * Clamp(lastCall'.val)
              /\ \A a \in Axes \ {AxisOf(lastCall'.op)} : Pcmd'[a] = Pcmd[a]
       ]_vars

\* Forward(150) has just given pitch 100 and flag 1, the roll set by an
\* earlier Left(50) still standing.
C13_ForwardClamped ==
  /\ lastCall = [op |-> "Forward", val |-> 150]
  /\ Pcmd.Pitch = 100
  /\ Pcmd.Flag = 1
  /\ Pcmd.Roll = -50

(***************************************************************************)
(* C14. Every command the heartbeat serializes is b.Pcmd as it stood after *)
(* some whole number of completed setter and Stop calls: it never mixes    *)
(* fields from before and after a call.                                    *)
(***************************************************************************)
C14_SnapshotIsCompletedState ==
  snapshot # << >> => snapshot \in completed

(***************************************************************************)
(* C15. Buffers leave b.writeChan only into the writer goroutine and reach *)
(* the socket only from it: every buffer whose b.write completed is passed *)
(* to the socket, once, and the buffers are passed in the order in which   *)
(* their b.write calls completed.                                          *)
(***************************************************************************)
SocketBuffers == [i \in 1..Len(socket) |-> socket[i].buf]

C15_WrittenOnceInOrder ==
  /\ [](/\ SocketBuffers = SubSeq(enqueued, 1, Len(socket))
        /\ \A i, j \in 1..Len(socket) :
             SocketBuffers[i] = SocketBuffers[j] => i = j
        /\ IF held = None
           THEN Len(enqueued) = Len(socket)
           ELSE /\ Len(enqueued) = Len(socket) + 1
                /\ enqueued[Len(enqueued)] = held)
  /\ [][ /\ enqueued' # enqueued
            => \E p \in Procs : /\ sending[p] # None
                                /\ sending'[p] = None
                                /\ enqueued' = Append(enqueued, sending[p])
                                /\ held' = sending[p]
         /\ socket' # socket
            => /\ held # None
               /\ SocketBuffers' = Append(SocketBuffers, held) ]_vars
  /\ \A k \in 1..MaxFrames : (Len(enqueued) >= k) ~> (Len(socket) >= k)

\* The three goroutines have each had a buffer written, the reader's first.
C15_AllProducersWritten ==
  /\ Len(socket) = 3
  /\ held = None
  /\ FrameID(socket[1].buf) = BD_NET_CD_VIDEO_ACK_ID
  /\ FramePayload(socket[2].buf) = << 2 >>
  /\ FramePayload(socket[3].buf) = << 1 >>

(***************************************************************************)
(* C19. A failed write to the socket does not end the writer goroutine:    *)
(* the buffer that failed is not passed to the socket again, and every     *)
(* buffer whose b.write completes afterwards is received and passed to the *)
(* socket.                                                                 *)
(***************************************************************************)
C19_WriterSurvivesFailure ==
  /\ [][ (socket' # socket /\ ~socket'[Len(socket')].ok) => held' = None
       ]_vars
  /\ [](\A i, j \in 1..Len(socket) :
          (i < j /\ ~socket[i].ok) => socket[j].buf # socket[i].buf)
  /\ \A k \in 1..(MaxFrames - 1) :
       (Len(socket) >= k /\ ~socket[k].ok /\ Len(enqueued) > k)
         ~> (Len(socket) > k)

\* A write failed and the buffer enqueued after it was written.
C19_WrittenAfterFailure ==
  /\ Len(socket) = 2
  /\ ~socket[1].ok
  /\ socket[2].ok
  /\ socket[2].buf # socket[1].buf
  /\ held = None

(***************************************************************************)
(* C16. When the frame in progress is complete and eligible and no         *)
(* consumer is receiving at the moment a fragment of another frame number  *)
(* replaces it, the reader's call returns without sending anything on the  *)
(* video channel, the replaced frame is discarded (nothing of it stays to  *)
(* be delivered later), and the fragment that replaced it is stored and    *)
(* acknowledged.                                                           *)
(***************************************************************************)
C16_BackpressureDrops ==
  [][ ( /\ FrameChange
        /\ AllReceived(tmpFrame.fragments.at, perFrame)
        /\ (InProgressIsKey \/ ~tmpFrame.waitForIframe)
        /\ ~receiving )
      => /\ ~panicked'
         /\ video' = << >>
         /\ tmpFrame'.frame = << >>
         /\ tmpFrame'.fragments.at
              = [i \in {LastFragment'.FragmentNumber} |-> LastFragment'.Frame]
         /\ Len(writeChan') = 1
         /\ Written(ARNETWORKAL_FRAME_TYPE_DATA, BD_NET_CD_VIDEO_ACK_ID)' = {1}
         /\ AckedFrameNumber(FramePayload(writeChan'[1]))
              = LastFragment'.FrameNumber
         /\ LastFragment'.FragmentNumber
              \in AckedIndices(FramePayload(writeChan'[1])) ]_vars

\* A complete, eligible frame has just been replaced with no consumer
\* receiving: nothing was sent, the new fragment is stored and acknowledged.
C16_DroppedUnderBackpressure ==
  /\ replaced = [any |-> TRUE, complete |-> TRUE, eligible |-> TRUE,
                 ready |-> FALSE]
  /\ ~panicked
  /\ video = << >>
  /\ DOMAIN tmpFrame.fragments.at = {LastFragment.FragmentNumber}
  /\ Len(writeChan) = 1

(***************************************************************************)
(* C17. Whatever video fragments arrive after New - any first frame        *)
(* number, 0 included, any index, any flags, any payload - the reader's    *)
(* call on each of them returns normally.                                  *)
(***************************************************************************)
C17_ReassemblerNeverFails ==
  (LastWasVideo /\ LastFragment.ok) => ~panicked

(***************************************************************************)
(* C18. The heartbeat hands no frame to the queue before its initial sleep *)
(* is over. After it, every time it wakes it hands over exactly one frame  *)
(* before it sleeps again, a data frame on the non-ack channel whose       *)
(* payload holds flag, roll, pitch, yaw and gaz of a piloting command that *)
(* b.Pcmd has held, changed or not since the frame before; and it goes on  *)
(* doing so for ever.                                                      *)
(***************************************************************************)
\* The signed value of a byte.
Int8(b) == IF b < 128 THEN b ELSE b - 256

HeartbeatSending == sending["heartbeat"] # None

\* Flag, roll, pitch, yaw and gaz a command frame carries.
CommandOf(f) ==
  LET q == FramePayload(f)
  IN  << q[5], Int8(q[6]), Int8(q[7]), Int8(q[8]), Int8(q[9]) >>

\* The commands b.Pcmd has held when only setters are called: the ones the
\* completed calls left, and each of them with Flag already set by the
\* first statement of the next call.
HeldCommands ==
  completed \cup {<< 1, t[2], t[3], t[4], t[5] >> : t \in completed}

C18_Heartbeat ==
  /\ [](grace > 0 => (~HeartbeatSending /\ enqueued = << >> /\ held = None))
  /\ [](HeartbeatSending
          => /\ FrameType(sending["heartbeat"]) = ARNETWORKAL_FRAME_TYPE_DATA
             /\ FrameID(sending["heartbeat"]) = BD_NET_CD_NONACK_ID
             /\ Len(FramePayload(sending["heartbeat"])) = 13
             /\ CommandOf(sending["heartbeat"]) \in HeldCommands)
  /\ [][ /\ (~HeartbeatSending /\ HeartbeatSending')
            => (grace = 0 /\ hbSleep = 0)
         /\ (HeartbeatSending /\ ~HeartbeatSending')
            => (held' = sending["heartbeat"] /\ hbSleep' = 1)
         /\ (hbSleep = 0 /\ hbSleep' > 0) => HeartbeatSending
         /\ (hbSleep > 0 /\ hbSleep' = 0) => ~HeartbeatSending
       ]_vars
  /\ []<>HeartbeatSending
  /\ []<>(~HeartbeatSending /\ hbSleep > 0)

(***************************************************************************)
(* C20. When a fragment replaces the frame in progress N by frame N + 2,   *)
(* the frame in progress is finalized with waitForIframe as it stood       *)
(* before the fragment, and the gap counts only afterwards: a complete     *)
(* frame N that is no key frame is delivered to a waiting consumer when    *)
(* waitForIframe was false, and after a key frame N the step leaves        *)
(* waitForIframe true.                                                     *)
(***************************************************************************)
\* This step replaces the frame in progress by the frame two numbers on.
SkipsOneFrame ==
  /\ FrameChange
  /\ ~panicked'
  /\ tmpFrame'.arstreamACK.FrameNumber
       = (tmpFrame.arstreamACK.FrameNumber + 2) % FrameNumberMod

C20_FinalizeBeforeGapCheck ==
  [][ SkipsOneFrame
      => /\ ( /\ AllReceived(tmpFrame.fragments.at, perFrame)
              /\ ~InProgressIsKey
              /\ ~tmpFrame.waitForIframe
              /\ receiving )
            => video' = << Ascending(tmpFrame.fragments.at, perFrame) >>
         /\ InProgressIsKey => tmpFrame'.waitForIframe ]_vars

(***************************************************************************)
(* C21. The frames sent on b.video have strictly increasing frame numbers, *)
(* counted modulo 65536: a frame that is sent has a number after the       *)
(* number of the frame sent before it, so none is sent twice, whatever     *)
(* order the fragments arrive in.                                          *)
(***************************************************************************)
\* Frame number b comes after frame number a, less than half the uint16
\* range on.
ComesAfter(a, b) ==
  (b - a) % FrameNumberMod \in 1..(FrameNumberMod \div 2 - 1)

C21_DeliveredInOrder ==
  [][ (ReaderStep /\ video' # << >> /\ lastSent # NoFrame)
      => ComesAfter(lastSent, tmpFrame.arstreamACK.FrameNumber) ]_vars

(***************************************************************************)
(* C22. With the writer, the reader and the heartbeat running, a goroutine *)
(* that is in b.write is not left there: its send on b.writeChan           *)
(* completes, which hands its buffer to the writer, and the writer passes  *)
(* the buffer to the socket; and whenever goroutines wait in b.write, the  *)
(* writer has a step to take, so they never all wait on the queue.         *)
(***************************************************************************)
C22_NoIndefiniteBlocking ==
  /\ \A p \in Procs : (sending[p] # None) ~> (sending[p] = None)
  /\ [][ /\ \A p \in Procs : (sending[p] # None /\ sending'[p] # sending[p])
                               => (sending'[p] = None /\ held' = sending[p])
         /\ (held # None /\ held' # held)
              => (\E ok \in BOOLEAN :
                    socket' = Append(socket, [buf |-> held, ok |-> ok])) ]_vars
  /\ (held # None) ~> (held = None)
  /\ []((\E p \in Procs : sending[p] # None) => ENABLED WriterStep)

\* The caller and the reader are waiting in b.write, and the heartbeat, which
\* came to b.write after both of them, has had its buffer received.
C22_ReceivedAmongWaiting ==
  /\ sending["caller"] # None
  /\ sending["reader"] # None
  /\ held # None
  /\ FramePayload(held) = << 2 >>
  /\ FrameSeq(held) = 3

(***************************************************************************)
(* C23. A packetReceiver call passes an ack to b.write only for a frame    *)
(* of type "data with ack", a video ack only for a low-latency frame on    *)
(* the video channel, and a pong only for a frame on the ping channel. For *)
(* a frame that is none of these it passes nothing to b.write, sends       *)
(* nothing on b.video and leaves b.tmpFrame, the sequence counters and     *)
(* b.Pcmd as they were. b.tmpFrame changes in no step but the reader's     *)
(* handling of a video fragment.                                           *)
(***************************************************************************)
VideoAcksWritten ==
  Written(ARNETWORKAL_FRAME_TYPE_DATA, BD_NET_CD_VIDEO_ACK_ID)

\* The reader's last frame falls under none of the three rules.
NoRuleApplies ==
  /\ LastFrame.ok
  /\ LastFrame.Type # ARNETWORKAL_FRAME_TYPE_DATA_WITH_ACK
  /\ ~LastWasVideo
  /\ LastFrame.ID # ARNETWORK_MANAGER_INTERNAL_BUFFER_ID_PING

C23_DispatchRules ==
  [][ /\ ReaderStep
         => /\ AcksWritten' # {}
                 => LastFrame'.Type = ARNETWORKAL_FRAME_TYPE_DATA_WITH_ACK
            /\ VideoAcksWritten' # {} => LastWasVideo'
            /\ PongsWritten' # {}
                 => LastFrame'.ID = ARNETWORK_MANAGER_INTERNAL_BUFFER_ID_PING
            /\ \A i \in 1..Len(writeChan') :
                 i \in AcksWritten' \cup VideoAcksWritten' \cup PongsWritten'
            /\ NoRuleApplies'
                 => /\ ~panicked'
                    /\ writeChan' = << >>
                    /\ video' = << >>
                    /\ tmpFrame' = tmpFrame
                    /\ seq' = seq
                    /\ Pcmd' = Pcmd
      /\ tmpFrame' # tmpFrame => (ReaderStep /\ LastWasVideo') ]_vars

\* The reader has just handled a data frame on channel 200 carrying a
\* command header, with a video frame in progress, a sequence counter in
\* use and the pitch Backward(150) set: nothing was passed to b.write.
C23_UnmatchedFrameIgnored ==
  /\ NoRuleApplies
  /\ LastFrame.Type = ARNETWORKAL_FRAME_TYPE_DATA
  /\ LastFrame.ID = 200
  /\ LastFrame.Data = << 1, 4, 12, 0 >>
  /\ DOMAIN tmpFrame.fragments.at # {}
  /\ seq # << >>
  /\ Pcmd.Pitch = -100
  /\ writeChan = << >>
  /\ ~panicked

(***************************************************************************)
(* C24. On each channel the frames passed to the socket carry consecutive  *)
(* sequence bytes, each the one before plus 1 modulo 256, also when the    *)
(* heartbeat and a command call build frames for the non-ack channel at    *)
(* the same time.                                                          *)
(***************************************************************************)
\* The sequence bytes of the frames of channel id, in socket order.
RECURSIVE SocketSeqs(_, _)
SocketSeqs(id, n) ==
  IF n = 0 THEN << >>
  ELSE IF FrameID(socket[n].buf) = id
       THEN Append(SocketSeqs(id, n - 1), FrameSeq(socket[n].buf))
       ELSE SocketSeqs(id, n - 1)

C24_ConsecutiveOnSocket ==
  \A id \in SeqChannels :
    LET sq == SocketSeqs(id, Len(socket))
    IN  \A i \in 1..(Len(sq) - 1) : sq[i + 1] = (sq[i] + 1) % ByteMod

=============================================================================
